---- MODULE Spec2Model ----
(***************************************************************************)
(* Model of ckan-dataset-downloader.py: the package lookup                 *)
(* (_get_dataset_metadata, _form_dataset_resources_lookup), the bounded    *)
(* retry fetch (_get_resource_file) and the download loop of __main__.     *)
(***************************************************************************)
EXTENDS Integers, Sequences, FiniteSets, TLC

VARIABLES
    args,             \* parsed command line (dataset_id, ckan_api_key, ckan_url, resource_name_regex)
    catalogue,        \* the resources sequence the catalogue holds for the dataset
    pc,               \* position of __main__
    resources_dict,   \* dict name -> url, as its item sequence in insertion order
    resource_list,    \* filtered list of (name, url)
    i,                \* position in resource_list of the resource being handled
    t,                \* loop variable of _get_resource_file
    last_exception,   \* local of _get_resource_file
    http_resp,        \* response bound by the for loop of __main__
    dataset_metadata, \* what _get_dataset_metadata returned
    parsed,           \* whether resp.json() was called on the lookup response
    files,            \* destination directory: file name -> content
    events,           \* every HTTP request, sleep and file write, in order
    error             \* exception that ended the run, if any

vars == <<args, catalogue, pc, dataset_metadata, resources_dict, resource_list, i, t,
          last_exception, http_resp, parsed, files, events, error>>

-----------------------------------------------------------------------------
(* Program constants *)

RETRY_DELAY_FACTOR == 10
RETRIES == 3
NAME_FIELD == "name"
URL_FIELD == "url"
API_KEY_HEADER == "X-CKAN-API-Key"

-----------------------------------------------------------------------------
(* Bounds and input domains *)

MaxResources == 2

None == "None"

\* resource names are character sequences (the name regex looks inside them)
Names == { <<"a">>, <<"b", "a">> }

\* resource URLs: host and path components
Urls == { [host |-> "h", path |-> <<"x", "f1">>],
          [host |-> "h", path |-> <<"y", "f1">>],
          [host |-> "h", path |-> <<"f2">>],
          [host |-> "h", path |-> <<>>] }

Descriptors == [name : Names, url : Urls]

Documents == UNION { [1..n -> Descriptors] : n \in 0..MaxResources }

DatasetIds == { "d1", "d2" }
CkanUrls == { "https://c1" }
ApiKeys == { None, "secret" }

\* --resource-name-regex: absent, or a literal with an optional ^ anchor
NoRegex == [given |-> FALSE, anchored |-> FALSE, lit |-> <<>>]
Regexes == { NoRegex,
             [given |-> TRUE, anchored |-> TRUE, lit |-> <<"a">>],
             [given |-> TRUE, anchored |-> TRUE, lit |-> <<"b">>],
             [given |-> TRUE, anchored |-> FALSE, lit |-> <<"a">>] }

Bodies == { "data1", "data2" }
LookupStatusCodes == { 200, 403, 404, 500 }

\* what _get_dataset_metadata returns: None, or the result field of the body
NoMetadata == [none |-> TRUE, resources |-> <<>>]
Metadata(doc) == [none |-> FALSE, resources |-> doc]

\* exceptions
NoError == [type |-> "None", msg |-> <<>>]
TransportErrors == { [type |-> "ConnectionError", msg |-> <<>>] }

\* the exception object raised by the n-th request of the run: every raise
\* makes a new object, so two attempts never raise the same one
Instance(e, n) == [type |-> e.type, msg |-> e.msg, at |-> n]
AssertionError == [type |-> "AssertionError", msg |-> <<>>]
IsADirectoryError == [type |-> "IsADirectoryError", msg |-> <<>>]

\* outcome of one session.get
Resp(s, c) == [raised |-> FALSE, exc |-> NoError, status |-> s, content |-> c]
Exc(e) == [raised |-> TRUE, exc |-> e, status |-> 0, content |-> None]
NoResp == Resp(0, None)

GetOutcomes == { Resp(200, b) : b \in Bodies } \cup { Resp(404, "data1"), Resp(500, "data2") }
               \cup { Exc(e) : e \in TransportErrors }

\* the outcome as the n-th request of the run gets it
Stamp(out, n) == IF out.raised THEN Exc(Instance(out.exc, n)) ELSE out

FileNames == { "f1", "f2", "x", "y" }

-----------------------------------------------------------------------------
(* Pure helpers *)

\* variant: the key is formatted into the header value, so an absent key is sent as text
Headers_text(ckan_api_key) ==
    [h \in {API_KEY_HEADER} |-> IF ckan_api_key = None THEN "str(None)" ELSE ckan_api_key]

\* headers={"X-CKAN-API-Key": ckan_api_key}
Headers(ckan_api_key) == [h \in {API_KEY_HEADER} |-> ckan_api_key]

\* the headers session.get puts on the wire: requests.Session merges the
\* headers argument with the session's and removes every key whose value is None
Sent(headers) == [h \in { k \in DOMAIN headers : headers[k] # None } |-> headers[h]]

\* RuntimeError(f"'{id_str}' doesn't exist on {ckan_url}!")
NotFoundError(id_str, ckan_url) ==
    [type |-> "RuntimeError", msg |-> <<"'", id_str, "' doesn't exist on ", ckan_url, "!">>]

\* RuntimeError(f"I don't know what to do with '{dataset_name}' - it doesn't exist")
UnavailableError(dataset_name) ==
    [type |-> "RuntimeError",
     msg |-> <<"I don't know what to do with '", dataset_name, "' - it doesn't exist">>]

\* variant: the 404 branch left out
StatusBranch_no404(status_code) ==
    IF status_code = 200 THEN "json" ELSE "none"

\* variant: every status other than 200 raises the not-found error
StatusBranch_raiseAll(status_code) ==
    IF status_code = 200 THEN "json" ELSE "raise"

\* variant: only 404 is treated as a failure
StatusBranch_only404(status_code) ==
    IF status_code = 404 THEN "raise" ELSE "json"

\* the if/elif/else on resp.status_code in _get_dataset_metadata
StatusBranch(status_code) ==
    IF status_code = 200 THEN "json"
    ELSE IF status_code = 404 THEN "raise"
    ELSE "none"

\* variant: an existing key keeps its first value
DictSet_keepFirst(d, k, v) ==
    IF \E j \in 1..Len(d) : d[j][1] = k THEN d ELSE Append(d, <<k, v>>)

\* d[k] = v on a dict kept as its item sequence: an existing key keeps its place
DictSet(d, k, v) ==
    IF \E j \in 1..Len(d) : d[j][1] = k
    THEN [j \in 1..Len(d) |-> IF d[j][1] = k THEN <<k, v>> ELSE d[j]]
    ELSE Append(d, <<k, v>>)

RECURSIVE DictFrom(_, _)
DictFrom(resources, d) ==
    IF resources = <<>> THEN d
    ELSE DictFrom(Tail(resources),
                  DictSet(d, Head(resources)[NAME_FIELD], Head(resources)[URL_FIELD]))

\* the dict comprehension of _form_dataset_resources_lookup
dataset_resource_lookup(resources) == DictFrom(resources, <<>>)

\* variant: filter_regex.match, which only looks at the start of the name
Search_match(re, s) ==
    /\ Len(re.lit) <= Len(s)
    /\ SubSeq(s, 1, Len(re.lit)) = re.lit

\* filter_regex.search(resource_name) for a literal with an optional ^ anchor
Search(re, s) ==
    \E k \in 1..(Len(s) - Len(re.lit) + 1) :
        /\ re.anchored => k = 1
        /\ SubSeq(s, k, k + Len(re.lit) - 1) = re.lit

\* (filter_regex and filter_regex.search(resource_name)) or not filter_regex
Keep(re, resource_name) == (re.given /\ Search(re, resource_name)) \/ ~re.given

RECURSIVE SelectItems(_, _)
SelectItems(items, re) ==
    IF items = <<>> THEN <<>>
    ELSE IF Keep(re, Head(items)[1])
         THEN <<Head(items)>> \o SelectItems(Tail(items), re)
         ELSE SelectItems(Tail(items), re)

\* variant: the first path component is taken instead of the last
PathName_first(url) == IF url.path = <<>> THEN "" ELSE url.path[1]

\* pathlib.Path(urllib.parse.urlparse(resource_url).path).name
PathName(url) == IF url.path = <<>> THEN "" ELSE url.path[Len(url.path)]

\* variant: the delay scales with t instead of t + 1
sleep_delay_fromZero(tt) == RETRY_DELAY_FACTOR * tt

\* sleep_delay = RETRY_DELAY_FACTOR * (t + 1)
sleep_delay(tt) == RETRY_DELAY_FACTOR * (tt + 1)

\* variant: only the first exception is kept
Capture_first(prev, e) == IF prev.type = "None" THEN e ELSE prev

\* last_exception = e
Capture(prev, e) == e

-----------------------------------------------------------------------------
(* Events *)

LookupEv(out) ==
    [kind |-> "lookup", call |-> 0,
     req |-> [url |-> args.ckan_url, id |-> args.dataset_id,
              headers |-> Headers(args.ckan_api_key),
              sent |-> Sent(Headers(args.ckan_api_key))],
     out |-> out]

\* variant: the generator walks resource_list from its end
GetEv_reversed(out) ==
    LET c == Len(resource_list) - i + 1 IN
    [kind |-> "get", call |-> c, t |-> t,
     req |-> [url |-> resource_list[c][2], headers |-> Headers(args.ckan_api_key),
              sent |-> Sent(Headers(args.ckan_api_key))],
     out |-> out]

GetEv(out) ==
    [kind |-> "get", call |-> i, t |-> t,
     req |-> [url |-> resource_list[i][2], headers |-> Headers(args.ckan_api_key),
              sent |-> Sent(Headers(args.ckan_api_key))],
     out |-> out]

SleepEv(secs) == [kind |-> "sleep", call |-> i, secs |-> secs]

WriteEv(name, data) == [kind |-> "write", call |-> i, file |-> name, data |-> data]

-----------------------------------------------------------------------------
(* Initial state *)

\* command lines: every regex with each of two (dataset id, API key) pairs; the
\* id and the key only reach the requests and the error messages
CommandLines ==
    { a \in [dataset_id : DatasetIds, ckan_api_key : ApiKeys,
             ckan_url : CkanUrls, resource_name_regex : Regexes] :
        (a.dataset_id = "d1") <=> (a.ckan_api_key = None) }

Init ==
    /\ args \in CommandLines
    /\ catalogue \in Documents
    /\ pc = "lookup"
    /\ dataset_metadata = NoMetadata
    /\ resources_dict = <<>>
    /\ resource_list = <<>>
    /\ i = 0
    /\ t = 0
    /\ last_exception = NoError
    /\ http_resp = NoResp
    /\ parsed = FALSE
    /\ files = [f \in FileNames |-> None]
    /\ events = <<>>
    /\ error = NoError

-----------------------------------------------------------------------------
(* _get_dataset_metadata, called from _form_dataset_resources_lookup *)

\* variant: the lookup is retried like a resource fetch
LookupRaises_retry ==
    /\ pc = "lookup"
    /\ \E e \in TransportErrors :
        LET out == Stamp(Exc(e), Len(events) + 1) IN
        /\ events' = Append(events, LookupEv(out))
        /\ IF Len(events) + 1 < RETRIES
           THEN pc' = "lookup" /\ error' = error
           ELSE pc' = "failed" /\ error' = out.exc
    /\ UNCHANGED <<args, catalogue, dataset_metadata, resources_dict, resource_list, i, t,
                   last_exception, http_resp, parsed, files>>

\* session.get raises: nothing catches it
LookupRaises ==
    /\ pc = "lookup"
    /\ \E e \in TransportErrors :
        LET out == Stamp(Exc(e), Len(events) + 1) IN
        /\ events' = Append(events, LookupEv(out))
        /\ error' = out.exc
    /\ pc' = "failed"
    /\ UNCHANGED <<args, catalogue, dataset_metadata, resources_dict, resource_list, i, t,
                   last_exception, http_resp, parsed, files>>

\* the catalogue answers; the body it sends is the document whatever the status
LookupAnswers ==
    /\ pc = "lookup"
    /\ \E status_code \in LookupStatusCodes :
        /\ events' = Append(events, LookupEv(Resp(status_code, catalogue)))
        /\ CASE StatusBranch(status_code) = "json" ->
                  /\ parsed' = TRUE
                  /\ dataset_metadata' = Metadata(catalogue)
                  /\ pc' = "form"
                  /\ error' = error
             [] StatusBranch(status_code) = "raise" ->
                  /\ error' = NotFoundError(args.dataset_id, args.ckan_url)
                  /\ pc' = "failed"
                  /\ UNCHANGED <<parsed, dataset_metadata>>
             [] OTHER ->
                  /\ dataset_metadata' = NoMetadata
                  /\ pc' = "form"
                  /\ UNCHANGED <<parsed, error>>
    /\ UNCHANGED <<args, catalogue, resources_dict, resource_list, i, t,
                   last_exception, http_resp, files>>

\* _form_dataset_resources_lookup after the call: the None check, then the dict
FormLookup ==
    /\ pc = "form"
    /\ IF dataset_metadata.none
       THEN /\ error' = UnavailableError(args.dataset_id)
            /\ pc' = "failed"
            /\ UNCHANGED resources_dict
       ELSE /\ resources_dict' = dataset_resource_lookup(dataset_metadata.resources)
            /\ pc' = "assemble"
            /\ UNCHANGED error
    /\ UNCHANGED <<args, catalogue, dataset_metadata, resource_list, i, t,
                   last_exception, http_resp, parsed, files, events>>

-----------------------------------------------------------------------------
(* __main__ *)

\* lines 135-142: build resource_list; the generator then starts on its first item
Assemble ==
    /\ pc = "assemble"
    /\ resource_list' = SelectItems(resources_dict, args.resource_name_regex)
    /\ IF resource_list' = <<>>
       THEN pc' = "done" /\ i' = i
       ELSE pc' = "attempt" /\ i' = 1
    /\ t' = 0
    /\ last_exception' = NoError
    /\ UNCHANGED <<args, catalogue, dataset_metadata, resources_dict, http_resp, parsed, files,
                   events, error>>

-----------------------------------------------------------------------------
(* _get_resource_file *)

\* variant: a 5xx response is treated as a failed attempt
AttemptReturns_retry5xx ==
    /\ pc = "attempt"
    /\ \E out \in { o \in GetOutcomes : ~o.raised } :
        /\ events' = Append(events, GetEv(out))
        /\ IF out.status >= 500
           THEN /\ last_exception' = [type |-> "HTTPError", msg |-> <<>>]
                /\ pc' = "sleep"
                /\ UNCHANGED http_resp
           ELSE /\ http_resp' = out
                /\ pc' = "assert"
                /\ UNCHANGED last_exception
    /\ UNCHANGED <<args, catalogue, dataset_metadata, resources_dict, resource_list, i, t,
                   parsed, files, error>>

\* http_session.get returns: the response is returned whatever its status
AttemptReturns ==
    /\ pc = "attempt"
    /\ \E out \in { o \in GetOutcomes : ~o.raised } :
        /\ events' = Append(events, GetEv(out))
        /\ http_resp' = out
    /\ pc' = "assert"
    /\ UNCHANGED <<args, catalogue, dataset_metadata, resources_dict, resource_list, i, t,
                   last_exception, parsed, files, error>>

\* http_session.get raises: the except clause keeps the exception
AttemptRaises ==
    /\ pc = "attempt"
    /\ \E o \in { o \in GetOutcomes : o.raised } :
        LET out == Stamp(o, Len(events) + 1) IN
        /\ events' = Append(events, GetEv(out))
        /\ last_exception' = Capture(last_exception, out.exc)
    /\ pc' = "sleep"
    /\ UNCHANGED <<args, catalogue, dataset_metadata, resources_dict, resource_list, i, t,
                   http_resp, parsed, files, error>>

\* rest of the except clause: time.sleep, then the next iteration of range(RETRIES)
Backoff ==
    /\ pc = "sleep"
    /\ events' = Append(events, SleepEv(sleep_delay(t)))
    /\ t' = t + 1
    /\ pc' = IF t + 1 < RETRIES THEN "attempt" ELSE "raise"
    /\ UNCHANGED <<args, catalogue, dataset_metadata, resources_dict, resource_list, i,
                   last_exception, http_resp, parsed, files, error>>

\* raise last_exception: nothing in __main__ catches it
RaiseLast ==
    /\ pc = "raise"
    /\ error' = last_exception
    /\ pc' = "failed"
    /\ UNCHANGED <<args, catalogue, dataset_metadata, resources_dict, resource_list, i, t,
                   last_exception, http_resp, parsed, files, events>>

-----------------------------------------------------------------------------
(* body of the for loop of __main__ *)

\* variant: a response with a bad status is skipped and the loop goes on
AssertStatus_skip ==
    /\ pc = "assert"
    /\ IF http_resp.status = 200
       THEN pc' = "write" /\ i' = i
       ELSE IF i < Len(resource_list)
            THEN pc' = "attempt" /\ i' = i + 1
            ELSE pc' = "done" /\ i' = i
    /\ UNCHANGED <<args, catalogue, dataset_metadata, resources_dict, resource_list, t,
                   last_exception, http_resp, parsed, files, events, error>>

\* variant: a bad status removes what the run has written so far
AssertStatus_rollback ==
    /\ pc = "assert"
    /\ IF http_resp.status = 200
       THEN pc' = "write" /\ error' = error /\ files' = files
       ELSE /\ pc' = "failed"
            /\ error' = AssertionError
            /\ files' = [f \in FileNames |-> None]
    /\ UNCHANGED <<args, catalogue, dataset_metadata, resources_dict, resource_list, i, t,
                   last_exception, http_resp, parsed, events>>

\* variant: the assertion is not evaluated
AssertStatus_off ==
    /\ pc = "assert"
    /\ pc' = "write"
    /\ UNCHANGED <<args, catalogue, dataset_metadata, resources_dict, resource_list, i, t,
                   last_exception, http_resp, parsed, files, events, error>>

\* assert http_resp.status_code == 200
AssertStatus ==
    /\ pc = "assert"
    /\ IF http_resp.status = 200
       THEN pc' = "write" /\ error' = error
       ELSE pc' = "failed" /\ error' = AssertionError
    /\ UNCHANGED <<args, catalogue, dataset_metadata, resources_dict, resource_list, i, t,
                   last_exception, http_resp, parsed, files, events>>

\* open(local_path, "wb") when the URL path has no final component: the file
\* name is empty, local_path is the destination directory, and open raises
OpenFails ==
    /\ pc = "write"
    /\ PathName(resource_list[i][2]) = ""
    /\ error' = IsADirectoryError
    /\ pc' = "failed"
    /\ UNCHANGED <<args, catalogue, dataset_metadata, resources_dict, resource_list, i, t,
                   last_exception, http_resp, parsed, files, events>>

\* variant: the file is opened for exclusive creation ("xb")
WriteFile_exclusive ==
    /\ pc = "write"
    /\ PathName(resource_list[i][2]) # ""
    /\ LET filename == PathName(resource_list[i][2]) IN
        IF files[filename] # None
        THEN /\ pc' = "failed"
             /\ error' = [type |-> "FileExistsError", msg |-> <<>>]
             /\ UNCHANGED <<files, events, i, t, last_exception>>
        ELSE /\ files' = [files EXCEPT ![filename] = http_resp.content]
             /\ events' = Append(events, WriteEv(filename, http_resp.content))
             /\ IF i < Len(resource_list)
                THEN pc' = "attempt" /\ i' = i + 1
                ELSE pc' = "done" /\ i' = i
             /\ t' = 0
             /\ last_exception' = NoError
             /\ error' = error
    /\ UNCHANGED <<args, catalogue, dataset_metadata, resources_dict, resource_list,
                   http_resp, parsed>>

\* open(local_path, "wb") and write; the generator then moves to the next item
WriteFile ==
    /\ pc = "write"
    /\ PathName(resource_list[i][2]) # ""
    /\ LET filename == PathName(resource_list[i][2]) IN
        /\ files' = [files EXCEPT ![filename] = http_resp.content]
        /\ events' = Append(events, WriteEv(filename, http_resp.content))
    /\ IF i < Len(resource_list)
       THEN pc' = "attempt" /\ i' = i + 1
       ELSE pc' = "done" /\ i' = i
    /\ t' = 0
    /\ last_exception' = NoError
    /\ UNCHANGED <<args, catalogue, dataset_metadata, resources_dict, resource_list,
                   http_resp, parsed, error>>

-----------------------------------------------------------------------------

Next ==
    \/ LookupRaises
    \/ LookupAnswers
    \/ FormLookup
    \/ Assemble
    \/ AttemptReturns
    \/ AttemptRaises
    \/ Backoff
    \/ RaiseLast
    \/ AssertStatus
    \/ OpenFails
    \/ WriteFile

Spec == Init /\ [][Next]_vars

-----------------------------------------------------------------------------
(* Reading the event log *)

IsStep(e, c) == e.call = c /\ e.kind \in {"get", "sleep"}

\* GET requests of the c-th call of _get_resource_file
CallGets(c) == SelectSeq(events, LAMBDA e : e.call = c /\ e.kind = "get")

\* sleeps of the c-th call
CallSleeps(c) == SelectSeq(events, LAMBDA e : e.call = c /\ e.kind = "sleep")

\* GETs and sleeps of the c-th call, in order
CallSteps(c) == SelectSeq(events, LAMBDA e : IsStep(e, c))

LookupEvents == SelectSeq(events, LAMBDA e : e.kind = "lookup")

Downloads == SelectSeq(events, LAMBDA e : e.kind \in {"get", "write"})

\* the current call of _get_resource_file has ended by raising
FetchRaised ==
    /\ pc = "failed"
    /\ i >= 1
    /\ CallGets(i) # <<>>
    /\ CallGets(i)[Len(CallGets(i))].out.raised

\* the c-th call has returned a response
Returned(c) ==
    /\ CallGets(c) # <<>>
    /\ ~CallGets(c)[Len(CallGets(c))].out.raised

-----------------------------------------------------------------------------
(* Claims about _get_resource_file *)

\* C1: when every one of the RETRIES attempts raises, the call has made exactly
\* RETRIES attempts and exactly RETRIES - 1 sleeps when it fails, and the last
\* failed attempt is not followed by a sleep.
C1_NoSleepAfterLastAttempt ==
    FetchRaised =>
        /\ Len(CallGets(i)) = RETRIES
        /\ Len(CallSleeps(i)) = RETRIES - 1
        /\ CallSteps(i)[Len(CallSteps(i))].kind = "get"

\* C2: when all RETRIES attempts raise, the error that reaches the caller is
\* the exception of the last attempt (index RETRIES - 1).
C2_RaisesLastException ==
    FetchRaised =>
        /\ Len(CallGets(i)) = RETRIES
        /\ \A j \in 1..RETRIES : CallGets(i)[j].out.raised /\ CallGets(i)[j].t = j - 1
        /\ error = CallGets(i)[RETRIES].out.exc

C2_Witness ==
    /\ FetchRaised
    /\ CallGets(i)[1].out.exc # CallGets(i)[RETRIES].out.exc
    /\ CallGets(i)[2].out.exc # CallGets(i)[RETRIES].out.exc

\* C3: if the first k attempts raise (0 <= k < RETRIES) and attempt k completes,
\* the call returns that response after exactly k sleeps of
\* RETRY_DELAY_FACTOR*1 .. RETRY_DELAY_FACTOR*k seconds in that order, each
\* between two attempts, does nothing more after the success, and none of the
\* k exceptions reaches the caller.
C3_SuccessAfterKFailures ==
    \A c \in 1..i :
        Returned(c) =>
            LET k == Len(CallGets(c)) - 1
                steps == CallSteps(c)
            IN  /\ k < RETRIES
                /\ Len(steps) = 2 * k + 1
                /\ \A j \in 1..k :
                      /\ steps[2 * j - 1].kind = "get"
                      /\ steps[2 * j - 1].out.raised
                      /\ steps[2 * j].kind = "sleep"
                      /\ steps[2 * j].secs = RETRY_DELAY_FACTOR * j
                /\ steps[2 * k + 1].kind = "get"
                /\ (c = i /\ pc = "assert") =>
                      /\ http_resp = steps[2 * k + 1].out
                      /\ error = NoError

C3_Witness ==
    /\ pc = "assert"
    /\ Len(CallGets(i)) = RETRIES
    /\ Len(CallSleeps(i)) = RETRIES - 1

\* C4: no status-code filtering: a GET that completes with any status is the
\* last step of its call and its response is what the call returns; an attempt
\* other than the first only ever follows an attempt that raised.
C4_NoStatusFiltering ==
    /\ \A n \in 1..Len(events) :
          (events[n].kind = "get" /\ ~events[n].out.raised) =>
              /\ \A m \in (n + 1)..Len(events) : ~IsStep(events[m], events[n].call)
              /\ (n = Len(events)) =>
                    /\ pc \in {"assert", "write", "failed"}
                    /\ http_resp = events[n].out
    /\ \A c \in 1..i : \A j \in 2..Len(CallGets(c)) : CallGets(c)[j - 1].out.raised

C4_Witness ==
    /\ pc = "assert"
    /\ http_resp.status = 500
    /\ Len(CallGets(i)) = 1
    /\ CallSleeps(i) = <<>>

-----------------------------------------------------------------------------
(* Claims about the package lookup *)

LastIndexOf(doc, name) ==
    CHOOSE j \in 1..Len(doc) :
        /\ doc[j].name = name
        /\ \A m \in (j + 1)..Len(doc) : doc[m].name # name

\* C5: for a lookup answered with 200, the mapping's keys are exactly the
\* resource names of the document, each once, and each name maps to the url of
\* the last descriptor carrying that name.
C5_LastWriteWins ==
    pc \in {"assemble", "attempt", "sleep", "raise", "assert", "write", "done"} =>
        /\ { resources_dict[j][1] : j \in 1..Len(resources_dict) }
              = { catalogue[j].name : j \in 1..Len(catalogue) }
        /\ \A j, m \in 1..Len(resources_dict) :
              resources_dict[j][1] = resources_dict[m][1] => j = m
        /\ \A j \in 1..Len(resources_dict) :
              resources_dict[j][2]
                  = catalogue[LastIndexOf(catalogue, resources_dict[j][1])].url

C5_Witness ==
    /\ pc = "assemble"
    /\ Len(catalogue) = 2
    /\ catalogue[1].name = catalogue[2].name
    /\ catalogue[1].url # catalogue[2].url
    /\ Len(resources_dict) = 1

LookupStatusIs(S) ==
    /\ LookupEvents # <<>>
    /\ ~LookupEvents[1].out.raised
    /\ LookupEvents[1].out.status \in S

\* C6: when the lookup is answered with 404 the run fails with the not-found
\* error, which names the dataset id and the catalogue URL, and that error is
\* what leaves _form_dataset_resources_lookup: it is not replaced by the
\* error raised for a None result.
C6_NotFoundPropagates ==
    LookupStatusIs({404}) =>
        /\ pc = "failed"
        /\ error.type = "RuntimeError"
        /\ Len(error.msg) = 5
        /\ error.msg[2] = args.dataset_id
        /\ error.msg[3] = "' doesn't exist on "
        /\ error.msg[4] = args.ckan_url
        /\ error # UnavailableError(args.dataset_id)
        /\ dataset_metadata = NoMetadata
        /\ ~parsed

C6_Witness ==
    /\ LookupStatusIs({404})
    /\ pc = "failed"
    /\ args.dataset_id = "d2"
    /\ catalogue # <<>>

\* C7: when the lookup is answered with a status other than 200 and 404,
\* _get_dataset_metadata returns None without raising and without parsing the
\* body, and _form_dataset_resources_lookup then fails with an error naming
\* the dataset that differs from every not-found error.
C7_OtherStatusUnavailable ==
    LookupStatusIs(LookupStatusCodes \ {200, 404}) =>
        /\ ~parsed
        /\ dataset_metadata.none
        /\ pc \in {"form", "failed"}
        /\ pc = "form" => error = NoError
        /\ pc = "failed" =>
              /\ error.type = "RuntimeError"
              /\ Len(error.msg) = 3
              /\ error.msg[2] = args.dataset_id
              /\ \A d \in DatasetIds, u \in CkanUrls : error # NotFoundError(d, u)

C7_Witness ==
    /\ LookupStatusIs({500})
    /\ pc = "failed"
    /\ catalogue # <<>>

-----------------------------------------------------------------------------
(* Claims about the run *)

ResolutionFailed ==
    /\ LookupEvents # <<>>
    /\ \/ LookupEvents[1].out.raised
       \/ LookupEvents[1].out.status # 200

\* C8: whenever dataset resolution fails (404, another non-200 status, or a
\* transport exception on the lookup), the run ends before any download: no
\* resource GET is issued and no file is written.
C8_NoDownloadAfterFailedResolution ==
    ResolutionFailed =>
        /\ pc \in {"form", "failed"}
        /\ Downloads = <<>>
        /\ \A f \in FileNames : files[f] = None

C8_Witness ==
    /\ ResolutionFailed
    /\ pc = "failed"
    /\ ~LookupEvents[1].out.raised
    /\ LookupEvents[1].out.status = 500
    /\ Len(catalogue) = 2
    /\ args.resource_name_regex = NoRegex

\* the c-th fetch ended in retry exhaustion or returned a status other than 200
FetchBad(c) ==
    /\ CallGets(c) # <<>>
    /\ LET last == CallGets(c)[Len(CallGets(c))] IN
          \/ ~last.out.raised /\ last.out.status # 200
          \/ last.out.raised /\ last.t = RETRIES - 1

\* C9: when the fetch of the k-th resource of the filtered list ends in retry
\* exhaustion or returns a status other than 200, no GET is issued and no
\* file is written for any later resource, and the run does not go on.
C9_AbortsRemainingQueue ==
    \A c \in 1..Len(resource_list) :
        FetchBad(c) =>
            /\ i = c
            /\ pc \in {"sleep", "raise", "assert", "failed"}
            /\ \A n \in 1..Len(events) :
                  events[n].kind \in {"get", "write"} => events[n].call <= c

C9_Witness ==
    /\ pc = "failed"
    /\ i >= 1
    /\ FetchBad(i)
    /\ i < Len(resource_list)

\* C10: every file written holds the body of a response whose status was 200,
\* fetched for that resource; a response with another status ends the run with
\* an assertion failure, is not retried, and no file is opened for it.
C10_WritesOnlyAfter200 ==
    /\ \A n \in 1..Len(events) :
          events[n].kind = "write" =>
              /\ n > 1
              /\ events[n - 1].kind = "get"
              /\ events[n - 1].call = events[n].call
              /\ ~events[n - 1].out.raised
              /\ events[n - 1].out.status = 200
              /\ events[n - 1].out.content = events[n].data
    /\ \A f \in FileNames :
          files[f] # None =>
              \E n \in 1..Len(events) :
                  /\ events[n].kind = "write"
                  /\ events[n].file = f
                  /\ events[n].data = files[f]
    /\ \A n \in 1..Len(events) :
          (events[n].kind = "get" /\ ~events[n].out.raised /\ events[n].out.status # 200) =>
              /\ n = Len(events)
              /\ pc \in {"assert", "failed"}
              /\ pc = "failed" => error = AssertionError

C10_Witness ==
    /\ pc = "failed"
    /\ error = AssertionError
    /\ i = 2
    /\ \E f \in FileNames : files[f] # None

-----------------------------------------------------------------------------
(* Claims about the filter and the requests *)

\* resource_list has been built
Assembled ==
    \/ pc \in {"attempt", "sleep", "raise", "assert", "write", "done"}
    \/ pc = "failed" /\ i >= 1

\* lit occurs in name at offset k
OccursAt(lit, name, k) ==
    /\ k + Len(lit) <= Len(name)
    /\ \A j \in 1..Len(lit) : name[k + j] = lit[j]

\* the regex finds a match somewhere in name (a ^ only allows offset 0)
Matches(re, name) ==
    \E k \in 0..Len(name) : OccursAt(re.lit, name, k) /\ (re.anchored => k = 0)

PositionIn(d, item) == CHOOSE j \in 1..Len(d) : d[j] = item

\* C11: the filtered list holds exactly the items of the mapping whose name the
\* regex matches somewhere (search, not match from the start or full match),
\* each once and in the mapping's order; without a regex it holds every item.
C11_FilterKeepsMatches ==
    Assembled =>
        LET re == args.resource_name_regex
            kept == { resource_list[p] : p \in 1..Len(resource_list) }
        IN  /\ \A j \in 1..Len(resources_dict) :
                  resources_dict[j] \in kept
                      <=> (~re.given \/ Matches(re, resources_dict[j][1]))
            /\ \A item \in kept : \E j \in 1..Len(resources_dict) : resources_dict[j] = item
            /\ \A p, q \in 1..Len(resource_list) :
                  p < q => PositionIn(resources_dict, resource_list[p])
                              < PositionIn(resources_dict, resource_list[q])
            /\ ~re.given => resource_list = resources_dict

C11_Witness ==
    /\ Assembled
    /\ args.resource_name_regex = [given |-> TRUE, anchored |-> FALSE, lit |-> <<"a">>]
    /\ Len(resources_dict) = 2
    /\ resources_dict[1][1] = <<"b", "a">>
    /\ resource_list = resources_dict

\* the anchored cases: ^b keeps ba (a match need not cover the name), ^a drops it
C11_WitnessAnchored ==
    /\ Assembled
    /\ args.resource_name_regex.anchored
    /\ Len(resources_dict) = 2
    /\ Len(resource_list) = 1

\* C12: the package lookup and every resource GET carry the X-CKAN-API-Key
\* header, with the key as its value, exactly when a key was given; without a
\* key the request goes out without that header.
C12_ApiKeyHeaderOnlyWhenPresent ==
    \A n \in 1..Len(events) :
        events[n].kind \in {"lookup", "get"} =>
            LET sent == events[n].req.sent IN
            IF args.ckan_api_key = None
            THEN API_KEY_HEADER \notin DOMAIN sent
            ELSE /\ API_KEY_HEADER \in DOMAIN sent
                 /\ sent[API_KEY_HEADER] = args.ckan_api_key

C12_Witness ==
    /\ args.ckan_api_key = None
    /\ \E n \in 1..Len(events) : events[n].kind = "lookup" /\ DOMAIN events[n].req.sent = {}
    /\ \E n \in 1..Len(events) : events[n].kind = "get" /\ DOMAIN events[n].req.sent = {}

-----------------------------------------------------------------------------
(* Claims about the files *)

\* resolution succeeded and every resource GET so far was a first attempt
\* answered with 200
AllFirstAttempt200 ==
    /\ LookupStatusIs({200})
    /\ \A n \in 1..Len(events) :
          events[n].kind = "get" =>
              /\ events[n].t = 0
              /\ ~events[n].out.raised
              /\ events[n].out.status = 200

\* the c-th resource has been fetched and the loop body has finished with it
Handled(c) == c < i \/ (c = i /\ pc \in {"done", "failed"})

\* a file named by the last path component of the c-th URL was written with
\* the body of the c-th response
WrittenFromUrl(c) ==
    LET url == resource_list[c][2]
        got == CallGets(c)[1].out
    IN  /\ url.path # <<>>
        /\ \E n \in 1..Len(events) :
              /\ events[n].kind = "write"
              /\ events[n].call = c
              /\ events[n].file = url.path[Len(url.path)]
              /\ events[n].data = got.content

\* the directory holds, under each name, what was last written to that name
FilesAreLastWrites ==
    \A f \in FileNames :
        LET ws == SelectSeq(events, LAMBDA e : e.kind = "write" /\ e.file = f)
        IN  files[f] = IF ws = <<>> THEN None ELSE ws[Len(ws)].data

\* C13 as stated: in a run where resolution succeeds and every fetch returns
\* 200 on its first attempt, every fetched resource results in a file named by
\* the last path component of its URL and holding the response body.
C13_EveryDownloadWritten ==
    AllFirstAttempt200 =>
        /\ FilesAreLastWrites
        /\ \A c \in 1..i : Handled(c) => WrittenFromUrl(c)

\* What does hold in such a run: the same for every resource whose URL has a
\* last path component; a URL without one ends the run when its file is
\* opened, after the files of the resources before it were written.
C13_DownloadWrittenWhenNamed ==
    AllFirstAttempt200 =>
        /\ FilesAreLastWrites
        /\ \A c \in 1..i :
              Handled(c) =>
                  IF resource_list[c][2].path # <<>>
                  THEN WrittenFromUrl(c)
                  ELSE /\ c = i
                       /\ pc = "failed"
                       /\ error = IsADirectoryError
        /\ (pc = "failed" /\ i >= 1) => resource_list[i][2].path = <<>>

C13_Witness ==
    /\ AllFirstAttempt200
    /\ pc = "done"
    /\ i = 2
    /\ files["f1"] = "data1"
    /\ files["f2"] = "data2"

-----------------------------------------------------------------------------
(* Claims about the order of steps *)

\* C14: every call of _get_resource_file starts with attempt 0; the attempt
\* index only grows by one, through a backoff that follows a failure at
\* t < RETRIES - 1; a failure at attempt RETRIES - 1 is followed by no backoff
\* but by the failure of the call; and the call is never stuck short of
\* returning or failing.
C14_FetchStateMachine ==
    /\ \A c \in 1..i :
          LET steps == CallSteps(c) IN
          /\ steps # <<>> => steps[1].kind = "get" /\ steps[1].t = 0
          /\ \A n \in 2..Len(steps) :
                IF steps[n].kind = "sleep"
                THEN /\ steps[n - 1].kind = "get"
                     /\ steps[n - 1].out.raised
                     /\ steps[n - 1].t < RETRIES - 1
                ELSE /\ steps[n - 1].kind = "sleep"
                     /\ n > 2
                     /\ steps[n].t = steps[n - 2].t + 1
    /\ pc = "attempt" => t < RETRIES
    /\ pc = "sleep" => t < RETRIES - 1
    /\ pc \in {"done", "failed"} \/ ENABLED Next

\* C15: the package lookup is a single attempt: one lookup request is issued
\* per run whatever its outcome, it is the first thing the run does, and a
\* transport exception on it ends the run with that exception, with no second
\* request and no sleep.
C15_SingleLookupAttempt ==
    /\ Len(LookupEvents) <= 1
    /\ pc # "lookup" =>
          /\ Len(LookupEvents) = 1
          /\ events[1].kind = "lookup"
          /\ events[1].req.id = args.dataset_id
          /\ events[1].req.url = args.ckan_url
    /\ (LookupEvents # <<>> /\ LookupEvents[1].out.raised) =>
          /\ pc = "failed"
          /\ Len(events) = 1
          /\ error = LookupEvents[1].out.exc
          /\ error.type = "ConnectionError"

C15_Witness ==
    /\ pc = "failed"
    /\ LookupEvents # <<>>
    /\ LookupEvents[1].out.raised
    /\ catalogue # <<>>

\* GETs, sleeps and writes, in order
ResourceEvents == SelectSeq(events, LAMBDA e : e.kind \in {"get", "sleep", "write"})

\* C16: resources are handled one after another in the order of the filtered
\* list: the steps of the run are those of resource 1, then those of resource
\* 2, and so on, never mixed; each GET goes to the URL of its resource; and
\* the first GET of resource c + 1 comes only after the fetch of resource c
\* has returned.
C16_StrictlySequential ==
    LET ev == ResourceEvents IN
    /\ ev # <<>> => ev[1].call = 1
    /\ \A n \in 1..Len(ev) :
          /\ ev[n].call \in 1..Len(resource_list)
          /\ ev[n].call <= i
          /\ ev[n].kind = "get" => ev[n].req.url = resource_list[ev[n].call][2]
          /\ n > 1 =>
                \/ ev[n].call = ev[n - 1].call
                \/ /\ ev[n].call = ev[n - 1].call + 1
                   /\ ev[n].kind = "get"
                   /\ ev[n].t = 0
                   /\ Returned(ev[n - 1].call)
    /\ \A c \in 1..(i - 1) : Returned(c)

C16_Witness ==
    /\ i = 2
    /\ pc = "assert"
    /\ Len(CallGets(1)) = 2
    /\ Len(CallGets(2)) = 2
    /\ resource_list[1][2] # resource_list[2][2]

\* last path component of the URL of the c-th resource of the list
NameOf(c) == LET path == resource_list[c][2].path IN path[Len(path)]

\* resources whose file has been written
Written == { c \in 1..Len(resource_list) : c < i \/ (c = i /\ pc = "done") }

\* C17: fetching and writing alternate per resource: the write of resource c
\* precedes the first GET of resource c + 1; at every moment, and so when the
\* run aborts at the k-th resource, the files on disk are exactly those of the
\* resources before the current one, each written once and holding what was
\* last written under its name.
C17_InterleavedNoRollback ==
    /\ \A n \in 1..Len(events) :
          (events[n].kind = "get" /\ events[n].call > 1 /\ events[n].t = 0) =>
              /\ events[n - 1].kind = "write"
              /\ events[n - 1].call = events[n].call - 1
    /\ \A c \in Written :
          Len(SelectSeq(events, LAMBDA e : e.kind = "write" /\ e.call = c)) = 1
    /\ \A n \in 1..Len(events) : events[n].kind = "write" => events[n].call \in Written
    /\ { f \in FileNames : files[f] # None } = { NameOf(c) : c \in Written }
    /\ FilesAreLastWrites
    /\ (pc = "failed" /\ i >= 1) => Written = 1..(i - 1)

C17_Witness ==
    /\ pc = "failed"
    /\ i = 2
    /\ { f \in FileNames : files[f] # None } = {"f2"}
    /\ files["f2"] = "data2"

\* resources p and q have different names and different URLs with the same
\* last path component
Collide(p, q) ==
    /\ resource_list[p][1] # resource_list[q][1]
    /\ resource_list[p][2] # resource_list[q][2]
    /\ resource_list[p][2].path # <<>>
    /\ resource_list[q][2].path # <<>>
    /\ NameOf(p) = NameOf(q)

\* the fetch of resource c returned 200
Got200(c) == Returned(c) /\ CallGets(c)[Len(CallGets(c))].out.status = 200

\* C18: the file name comes from the URL's last path component only: when
\* two resources with different names collide on it and both fetches return
\* 200, the second write raises no error and replaces the first; the one file
\* of that name holds the body fetched for the later resource.
C18_CollisionOverwrites ==
    \A q \in 2..i : \A p \in 1..(q - 1) :
        (Collide(p, q) /\ Got200(p) /\ Got200(q) /\ pc \notin {"assert", "write"}) =>
            /\ q \in Written
            /\ q = Len(resource_list) => pc = "done" /\ error = NoError
            /\ (\A r \in (q + 1)..Len(resource_list) : r \in Written => NameOf(r) # NameOf(q)) =>
                  files[NameOf(q)] = CallGets(q)[Len(CallGets(q))].out.content
            /\ Cardinality({ f \in FileNames : files[f] # None }) < Cardinality(Written)

C18_Witness ==
    /\ pc = "done"
    /\ i = 2
    /\ Collide(1, 2)
    /\ CallGets(1)[Len(CallGets(1))].out.content = "data1"
    /\ CallGets(2)[Len(CallGets(2))].out.content = "data2"
    /\ files["f1"] = "data2"
    /\ { f \in FileNames : files[f] # None } = {"f1"}

====
